---- MODULE Spec2Model ----
(***************************************************************************)
(* A model of include/assign.h: the class template assign_helper<Vars...>  *)
(* (a tuple of references to caller variables), its constrained            *)
(* operator=(const Tup&), its implicitly declared copy assignment, and the *)
(* factory assign(vars...).                                                *)
(*                                                                         *)
(* A call site that does not build is modelled as a call that leaves the   *)
(* memory alone and records why it was refused: "no_match" (overload       *)
(* resolution finds no viable operator=) or "ill_formed" (the constraint   *)
(* is satisfied and the instantiation of the body fails at line 51).       *)
(***************************************************************************)
EXTENDS Integers, Sequences, FiniteSets, TLC

\* Largest number of variables bound by one assigner, and of elements of a source.
MaxArity == 2

(***************************************************************************)
(* The caller's variables.  Values: an int is an integer; a double is      *)
(* counted in halves (3 is 1.5); a const char* is the number of the string *)
(* literal it points to; a std::tuple<int,int> is a sequence of two ints.  *)
(***************************************************************************)
Scalar(n) == [name |-> n, args |-> <<>>, ref |-> FALSE]
Tuple(ts) == [name |-> "tuple", args |-> ts, ref |-> FALSE]
Ref(t) == [t EXCEPT !.ref = TRUE]
remove_reference(t) == [t EXCEPT !.ref = FALSE]

VarNames == {"a", "b", "s", "p"}
declType ==
    [a |-> Scalar("int"), b |-> Scalar("int"), s |-> Scalar("cstr"),
     p |-> Tuple(<<Scalar("int"), Scalar("int")>>)]

IntVals == {0, 1}
CStrVals == {0, 1}
PairVals == {<<x, x>> : x \in IntVals}
Memories == [a : IntVals, b : IntVals, s : CStrVals, p : PairVals]

\* The binding lists a caller can write: any variables, repeats allowed.
SeqsOfLen(S, n) == [1..n -> S]
Bindings == UNION {SeqsOfLen(VarNames, n) : n \in 1..MaxArity}

(***************************************************************************)
(* Sources.  An element of a tuple is held by value (std::make_tuple) or   *)
(* is a reference to a caller variable (std::tie).  A source is a tuple of *)
(* elements or a single non-tuple object, and the expression naming it is  *)
(* a non-const lvalue or not (a temporary, a const object).                *)
(***************************************************************************)
ValElem(t, v) == [kind |-> "val", type |-> t, val |-> v]
RefElem(x) == [kind |-> "ref", var |-> x]
RefTargets == {"a", "b"}
\* make_tuple(1), make_tuple(1.5), make_tuple(-0.5), make_tuple("hello"),
\* std::tie(a), std::tie(b)
IntElems == {ValElem("int", 1)}
Elems ==
    IntElems
        \cup {ValElem("double", 3), ValElem("double", -1)}
        \cup {ValElem("cstr", 0)}
        \cup {RefElem(x) : x \in RefTargets}
\* Temporaries and const objects: std::make_tuple(...), std::tie(...), a literal.
Temporaries ==
    [form : {"tuple"},
     elems : UNION {SeqsOfLen(Elems, n) : n \in 0..MaxArity},
     lvalue : {FALSE}]
        \cup [form : {"scalar"}, elems : {<<ValElem("int", 1)>>}, lvalue : {FALSE}]
\* Named non-const objects of the caller: std::tuple<int...> t; int x; const char* c.
NamedObjects ==
    [form : {"tuple"},
     elems : UNION {SeqsOfLen(IntElems, n) : n \in 1..MaxArity},
     lvalue : {TRUE}]
        \cup [form : {"scalar"},
              elems : {<<ValElem("int", 1)>>, <<ValElem("cstr", 1)>>},
              lvalue : {TRUE}]
Sources == Temporaries \cup NamedObjects
NoSource == [form |-> "none", elems |-> <<>>, lvalue |-> FALSE]

ElemType(e) ==
    IF e.kind = "ref" THEN Ref(declType[e.var]) ELSE Scalar(e.type)
SourceType(src) ==
    IF src.form = "tuple"
    THEN Tuple([i \in 1..Len(src.elems) |-> ElemType(src.elems[i])])
    ELSE ElemType(src.elems[1])

(***************************************************************************)
(* The type level: the concepts and the requires-clause of operator=.      *)
(***************************************************************************)
\* V& = E is well-formed: same type, or an arithmetic conversion.
Arithmetic == {"int", "double"}
is_assignable(V, E) ==
    LET U == remove_reference(E)
    IN  \/ V = U
        \/ V.name \in Arithmetic /\ U.name \in Arithmetic

\* What the built-in or class assignment stores: int <- double truncates toward 0.
Convert(V, E, v) ==
    IF V.name = "int" /\ E.name = "double"
    THEN IF v >= 0 THEN v \div 2 ELSE -((-v) \div 2)
    ELSE IF V.name = "double" /\ E.name = "int" THEN 2 * v
    ELSE v

tuple_size(src) == Len(src.elems)
tuple_element_t(i, src) == ElemType(src.elems[i])

\* std::tuple_size<T>::value and std::get<0>(t) are both valid expressions
\* (std::get<0> of an empty tuple is not).
tuple_like(src) == src.form = "tuple" /\ tuple_size(src) >= 1

assignable_from(Var, TupElem) == is_assignable(Var, TupElem)

\* The value the lambda of the requires-clause returns (line 33).
AllAssignable(refs, src) ==
    \A i \in 1..Len(refs) :
        assignable_from(declType[refs[i]], tuple_element_t(i, src))

\* The nested requires-expression (lines 31-35) is a simple requirement: it asks
\* that the call of the lambda is a valid expression, not that it yields true.
NestedRequirement(refs, src) == AllAssignable(refs, src) \in BOOLEAN

Constraint(refs, src) ==
    /\ tuple_like(src)
    /\ Len(refs) = tuple_size(src)
    /\ NestedRequirement(refs, src)

\* Variant: only the first element assignment is checked.
BodyWellFormed_FirstOnly(refs, src) ==
    is_assignable(declType[refs[1]], tuple_element_t(1, src))

\* Every element assignment of the fold expression (line 51) is well-formed.
BodyWellFormed(refs, src) ==
    \A i \in 1..Len(refs) :
        is_assignable(declType[refs[i]], tuple_element_t(i, src))

\* The implicit copy assignment operator=(const assign_helper&) takes the source
\* when it converts to assign_helper: the constructor (line 26) is not explicit,
\* so a non-const lvalue of type Vars_0 converts when there is one binding.
ImplicitViable(refs, src) ==
    /\ Len(refs) = 1
    /\ src.lvalue
    /\ SourceType(src) = declType[refs[1]]

(***************************************************************************)
(* The value level.                                                        *)
(***************************************************************************)
\* Variant: the elements are taken in the opposite order.
Get_Mirrored(i, tup, mem) ==
    LET k == Len(tup.elems) + 1 - i
    IN  IF tup.elems[k].kind = "ref" THEN mem[tup.elems[k].var] ELSE tup.elems[k].val

\* std::get<I>(tup): an element held by value, or the variable it refers to.
Get(i, tup, mem) ==
    IF tup.elems[i].kind = "ref" THEN mem[tup.elems[i].var] ELSE tup.elems[i].val

\* Variant: += in place of =.
ElementAssign_Accumulate(i, refs, st) ==
    [mem |-> [st.mem EXCEPT ![refs[i]] =
                 @ + Convert(declType[refs[i]],
                             remove_reference(tuple_element_t(i, st.tup)),
                             Get(i, st.tup, st.mem))],
     tup |-> st.tup,
     log |-> Append(st.log, i)]

\* Variant: an element held by value is moved from, and left zeroed.
ElementAssign_Move(i, refs, st) ==
    [mem |-> [st.mem EXCEPT ![refs[i]] =
                 Convert(declType[refs[i]], remove_reference(tuple_element_t(i, st.tup)),
                         Get(i, st.tup, st.mem))],
     tup |-> [st.tup EXCEPT !.elems[i] =
                 IF @.kind = "val" THEN [@ EXCEPT !.val = 0] ELSE @],
     log |-> Append(st.log, i)]

\* std::get<I>(refs) = std::get<I>(tup): one term of the fold (line 51).
ElementAssign(i, refs, st) ==
    [mem |-> [st.mem EXCEPT ![refs[i]] =
                 Convert(declType[refs[i]], remove_reference(tuple_element_t(i, st.tup)),
                         Get(i, st.tup, st.mem))],
     tup |-> st.tup,
     log |-> Append(st.log, i)]

\* Variant: the terms run from the last index down to the first.
RECURSIVE Fold_Descending(_, _, _)
Fold_Descending(i, refs, st) ==
    IF i > Len(refs) THEN st
    ELSE LET k == Len(refs) + 1 - i
         IN  Fold_Descending(i + 1, refs,
                 [mem |-> [st.mem EXCEPT ![refs[k]] =
                              Convert(declType[refs[k]],
                                      remove_reference(tuple_element_t(k, st.tup)),
                                      Get(k, st.tup, st.mem))],
                  tup |-> st.tup,
                  log |-> Append(st.log, k)])

\* The fold over the comma operator: terms in index order, left to right.
RECURSIVE Fold(_, _, _)
Fold(i, refs, st) ==
    IF i > Len(refs) THEN st ELSE Fold(i + 1, refs, ElementAssign(i, refs, st))

\* Variant: every element is read before any variable is written.
assign_impl_Snapshot(refs, tup, mem) ==
    [mem |-> [x \in DOMAIN mem |->
                 IF \E i \in 1..Len(refs) : refs[i] = x
                 THEN LET k == CHOOSE i \in 1..Len(refs) :
                                   /\ refs[i] = x
                                   /\ \A j \in (i + 1)..Len(refs) : refs[j] # x
                      IN  Convert(declType[x], remove_reference(tuple_element_t(k, tup)),
                                  Get(k, tup, mem))
                 ELSE mem[x]],
     tup |-> tup,
     log |-> [i \in 1..Len(refs) |-> i]]

\* void assign_impl(const Tuple& tup, std::index_sequence<Is...>)
assign_impl(refs, tup, mem) == Fold(1, refs, [mem |-> mem, tup |-> tup, log |-> <<>>])

\* The value of the whole source object (what a converted assign_helper refers to).
ObjectValue(src) ==
    IF src.form = "tuple"
    THEN [i \in 1..Len(src.elems) |-> src.elems[i].val]
    ELSE src.elems[1].val

\* refs = other.refs, where other was converted from the source object.
implicit_copy_assign(refs, src, mem) ==
    [mem |-> [mem EXCEPT ![refs[1]] = ObjectValue(src)],
     tup |-> src,
     log |-> <<1>>]

\* assign_helper(Vars&... vars) : refs(vars...)
assign_helper_ctor(vars) == vars

\* Variant: the factory hands the variables over in the opposite order.
assign_Reversed(vars) == [i \in 1..Len(vars) |-> vars[Len(vars) + 1 - i]]

\* assign(vars...) returns assign_helper<Vars...>(vars...)
assign(vars) == assign_helper_ctor(vars)

\* Variant: a fresh, unbound assigner is returned.
ReturnThis_Fresh(refs) == <<>>

\* return *this
ReturnThis(refs) == refs

(***************************************************************************)
(* The state: the caller's memory; the assigner's tuple of references and  *)
(* the list it was constructed with; whether this assigner has already     *)
(* been assigned from; and a record of the statement being executed (what  *)
(* it was given and what it did), dropped when the statement ends and its  *)
(* temporaries die.                                                        *)
(***************************************************************************)
VARIABLES mem, refs, given, used, last

vars == <<mem, refs, given, used, last>>

Idle(m) ==
    [op |-> "none", outcome |-> "none", path |-> "none", viable |-> FALSE,
     args |-> <<>>, src |-> NoSource, pre |-> m, reuse |-> FALSE,
     tupAfter |-> NoSource, log |-> <<>>, ret |-> <<>>]

Built(op, args, pre) ==
    [op |-> op, outcome |-> "ok", path |-> "none", viable |-> FALSE,
     args |-> args, src |-> NoSource, pre |-> pre, reuse |-> FALSE,
     tupAfter |-> NoSource, log |-> <<>>, ret |-> <<>>]

Called(outcome, path, viable, src, st, ret) ==
    [op |-> "operator=", outcome |-> outcome, path |-> path, viable |-> viable,
     args |-> refs, src |-> src, pre |-> mem, reuse |-> used,
     tupAfter |-> st.tup, log |-> st.log, ret |-> ret]

Refused(src) == [mem |-> mem, tup |-> src, log |-> <<>>]

Init ==
    /\ mem \in Memories
    /\ \E bnd \in Bindings :
        /\ refs = assign_helper_ctor(bnd)
        /\ given = bnd
    /\ used = FALSE
    /\ last = Idle(mem)

\* assign_helper<Vars...> h(vars...);
Construct ==
    /\ last.op = "none"
    /\ \E bnd \in Bindings :
        /\ refs' = assign_helper_ctor(bnd)
        /\ given' = bnd
        /\ mem' = mem
        /\ used' = FALSE
        /\ last' = Built("ctor", bnd, mem)

\* auto h = assign(vars...);
Factory ==
    /\ last.op = "none"
    /\ \E bnd \in Bindings :
        /\ refs' = assign(bnd)
        /\ given' = bnd
        /\ mem' = mem
        /\ used' = FALSE
        /\ last' = Built("assign", bnd, mem)

\* h = src, taken by the template operator= (lines 29-41).
OperatorAssign ==
    /\ last.op = "none"
    /\ \E src \in Sources :
        /\ Constraint(refs, src)
        /\ BodyWellFormed(refs, src)
        /\ LET st == assign_impl(refs, src, mem)
           IN  /\ mem' = st.mem
               /\ last' = Called("ok", "template", TRUE, src, st, ReturnThis(refs))
        /\ used' = TRUE
        /\ UNCHANGED <<refs, given>>

\* h = src: the template is chosen and its body does not compile (line 51).
OperatorAssignIllFormed ==
    /\ last.op = "none"
    /\ \E src \in Sources :
        /\ Constraint(refs, src)
        /\ ~BodyWellFormed(refs, src)
        /\ last' = Called("ill_formed", "template", TRUE, src, Refused(src), <<>>)
    /\ UNCHANGED <<mem, refs, given, used>>

\* h = src, taken by the implicit copy assignment after converting src. The
\* template, when viable, binds const Tup& directly and is the better match.
ImplicitAssign ==
    /\ last.op = "none"
    /\ \E src \in Sources :
        /\ ~Constraint(refs, src)
        /\ ImplicitViable(refs, src)
        /\ LET st == implicit_copy_assign(refs, src, mem)
           IN  /\ mem' = st.mem
               /\ last' = Called("ok", "implicit", FALSE, src, st, ReturnThis(refs))
        /\ used' = TRUE
        /\ UNCHANGED <<refs, given>>

\* h = src: no operator= is viable.
NoMatch ==
    /\ last.op = "none"
    /\ \E src \in Sources :
        /\ ~Constraint(refs, src)
        /\ ~ImplicitViable(refs, src)
        /\ last' = Called("no_match", "none", FALSE, src, Refused(src), <<>>)
    /\ UNCHANGED <<mem, refs, given, used>>

\* The full-expression ends: the source temporary and the returned handle go away.
EndStatement ==
    /\ last.op # "none"
    /\ last' = Idle(mem)
    /\ UNCHANGED <<mem, refs, given, used>>

Next ==
    \/ Construct
    \/ Factory
    \/ OperatorAssign
    \/ OperatorAssignIllFormed
    \/ ImplicitAssign
    \/ NoMatch
    \/ EndStatement

Spec == Init /\ [][Next]_vars

(***************************************************************************)
(* Vocabulary of the properties: what the record of the last statement     *)
(* says, stated without the operators of the model.                        *)
(***************************************************************************)
Call == last.op = "operator="
Accepted == Call /\ last.outcome = "ok"
TemplateAccepted == Accepted /\ last.path = "template"
N == Len(last.args)
M == Len(last.src.elems)
BoundVars == {last.args[i] : i \in 1..N}
TupleLikeSource == last.src.form = "tuple" /\ M >= 1

ElemIsRef(i) == last.src.elems[i].kind = "ref"
VarTypeName(i) == declType[last.args[i]].name
ElemTypeName(i) ==
    IF ElemIsRef(i) THEN declType[last.src.elems[i].var].name
    ELSE last.src.elems[i].type

\* The value of element i of tuple tup, as seen when the memory is m.
ElemValueIn(tup, i, m) ==
    IF tup.elems[i].kind = "ref" THEN m[tup.elems[i].var] ELSE tup.elems[i].val
\* The value element i of the source had when the call began.
ValueHad(i) == ElemValueIn(last.src, i, last.pre)

\* Variable value v (of type V) is the very value e (of type E).
ExactlyEqual(V, v, E, e) ==
    IF V = E THEN v = e
    ELSE IF V = "int" /\ E = "double" THEN 2 * v = e
    ELSE IF V = "double" /\ E = "int" THEN v = 2 * e
    ELSE FALSE

\* Variable value v (of type V) is what C++ stores for V& = e (of type E).
IsConversionOf(V, v, E, e) ==
    IF V = "int" /\ E = "double"
    THEN IF e >= 0 THEN 2 * v <= e /\ e < 2 * v + 2
         ELSE 2 * v >= e /\ e > 2 * v - 2
    ELSE ExactlyEqual(V, v, E, e)

\* The language rule: an E cannot be assigned to a V.
Mismatch(i) ==
    /\ VarTypeName(i) # ElemTypeName(i)
    /\ ~({VarTypeName(i), ElemTypeName(i)} \subseteq {"int", "double"})

\* Position i's variable is bound again at a later position.
LaterBound(i) == \E j \in (i + 1)..N : last.args[j] = last.args[i]
\* Element i refers to a variable that an earlier position of this call wrote.
ReadsWritten(i) ==
    ElemIsRef(i) /\ \E j \in 1..(i - 1) : last.args[j] = last.src.elems[i].var
\* Element i refers to a bound variable that this call has not written yet.
ReadsUnwritten(i) ==
    /\ ElemIsRef(i)
    /\ last.src.elems[i].var \in BoundVars
    /\ ~ReadsWritten(i)
Written(i) == \E k \in 1..Len(last.log) : last.log[k] = i

(***************************************************************************)
(* C1: positional correctness.                                             *)
(***************************************************************************)
\* C1 as stated: after an accepted assignment from a tuple-like value, every
\* bound variable v_i holds the value element i had (read with the benefit of
\* the doubt: as the element assignment converts it to v_i's type).
C1_Original ==
    TemplateAccepted =>
        \A i \in 1..N :
            IsConversionOf(VarTypeName(i), mem[last.args[i]], ElemTypeName(i), ValueHad(i))

\* C1 (amended): after an accepted assignment every position i is written, and
\* v_i holds the value element i had before the call, converted to v_i's type,
\* unless v_i is bound again at a later position or element i is a reference to
\* a variable bound at an earlier position.
C1_Positional ==
    TemplateAccepted =>
        \A i \in 1..N :
            /\ Written(i)
            /\ (~LaterBound(i) /\ ~ReadsWritten(i)) =>
                   IsConversionOf(VarTypeName(i), mem[last.args[i]],
                                  ElemTypeName(i), ValueHad(i))

\* An accepted assignment to two variables of different types, both changed.
C1_Witness ==
    /\ TemplateAccepted
    /\ last.args = <<"a", "s">>
    /\ ~ElemIsRef(1)
    /\ mem.a # last.pre.a
    /\ mem.s # last.pre.s

(***************************************************************************)
(* C2: arity mismatch.                                                     *)
(***************************************************************************)
\* C2: a tuple-like source whose arity differs from the binding set's is
\* rejected, and no bound variable is changed.
C2_ArityMismatchRejected ==
    (Call /\ TupleLikeSource /\ M # N) =>
        (last.outcome # "ok" /\ mem = last.pre)

(***************************************************************************)
(* C3: per-element type mismatch.                                          *)
(***************************************************************************)
\* C3: when a tuple-like source of the right arity has an element that cannot
\* be assigned to its variable, the statement is rejected and no element
\* assignment is performed, the compatible positions included.
C3_TypeMismatchRejected ==
    (Call /\ TupleLikeSource /\ M = N /\ \E i \in 1..N : Mismatch(i)) =>
        /\ last.outcome # "ok"
        /\ mem = last.pre
        /\ last.log = <<>>

\* A rejected statement with one compatible and one incompatible position,
\* where the compatible write would have changed its variable.
C3_Witness ==
    /\ Call /\ TupleLikeSource /\ M = N /\ N = 2
    /\ ~Mismatch(1) /\ Mismatch(2)
    /\ last.outcome # "ok"
    /\ ~ElemIsRef(1)
    /\ ~ExactlyEqual(VarTypeName(1), last.pre[last.args[1]], ElemTypeName(1), ValueHad(1))

(***************************************************************************)
(* C4: the rejection is done by the constraint.                            *)
(***************************************************************************)
Preconditions == TupleLikeSource /\ M = N /\ \A i \in 1..N : ~Mismatch(i)

\* C4: the template operator= is viable exactly when the three preconditions
\* hold; when the constraint accepts, the body is legal; when a precondition
\* fails, the body is never reached.
C4_ConstraintIffPreconditions ==
    Call =>
        /\ last.viable <=> Preconditions
        /\ last.viable => last.outcome = "ok"
        /\ ~Preconditions => last.path # "template"

(***************************************************************************)
(* C5: reuse without memory.                                               *)
(***************************************************************************)
\* What the bound variables hold does not depend on what they held before.
IndependentOfBoundPre ==
    \A m \in Memories :
        (\A v \in VarNames \ BoundVars : m[v] = last.pre[v]) =>
            \A v \in BoundVars : assign_impl(last.args, last.src, m).mem[v] = mem[v]

\* C5 as stated: after a second accepted assignment the bound variables depend
\* only on the last source, as if the earlier one had never been made.
C5_Original == (TemplateAccepted /\ last.reuse) => IndependentOfBoundPre

\* C5 (amended): the same, unless an element of the last source is a reference
\* to a bound variable that the assignment has not yet written when it reads it.
C5_ReuseWithoutMemory ==
    (TemplateAccepted /\ last.reuse /\ \A i \in 1..N : ~ReadsUnwritten(i)) =>
        IndependentOfBoundPre

\* A second assignment through the same assigner that overwrites both variables.
C5_Witness ==
    /\ TemplateAccepted /\ last.reuse
    /\ N = 2 /\ last.args[1] # last.args[2]
    /\ \A i \in 1..N : ~ElemIsRef(i)
    /\ \A i \in 1..N : mem[last.args[i]] # last.pre[last.args[i]]

(***************************************************************************)
(* C6: ordering of the writes.                                             *)
(***************************************************************************)
HighestPosition(x) == CHOOSE i \in 1..N : last.args[i] = x /\ ~LaterBound(i)

\* C6: an accepted assignment performs exactly N writes, one per index, in the
\* order 1..N, none skipped and none repeated; a variable bound at several
\* positions ends up holding the element of the highest of them.
C6_WriteOrder ==
    TemplateAccepted =>
        /\ last.log = [i \in 1..N |-> i]
        /\ \A x \in BoundVars :
            LET k == HighestPosition(x)
            IN  (~ReadsWritten(k) /\ \E j \in 1..N : j # k /\ last.args[j] = x) =>
                    IsConversionOf(VarTypeName(k), mem[x], ElemTypeName(k), ValueHad(k))

\* One variable bound twice, given two elements that convert to different
\* values, the later one being the value the variable already had.
C6_Witness ==
    /\ TemplateAccepted
    /\ N = 2 /\ last.args[1] = last.args[2]
    /\ ~ElemIsRef(1) /\ ~ElemIsRef(2)
    /\ ElemTypeName(1) # ElemTypeName(2)
    /\ mem[last.args[2]] = last.pre[last.args[2]]
    /\ ~IsConversionOf(VarTypeName(1), mem[last.args[1]], ElemTypeName(1), ValueHad(1))

(***************************************************************************)
(* C7: frame.                                                              *)
(***************************************************************************)
Unbound == VarNames \ BoundVars

\* C7 as stated: an accepted assignment leaves the source with the same
\* elements it had, and every variable outside the binding set unchanged.
C7_Original ==
    Accepted =>
        /\ \A i \in 1..M : ElemValueIn(last.tupAfter, i, mem) = ValueHad(i)
        /\ \A v \in Unbound : mem[v] = last.pre[v]

\* C7 (amended): an accepted assignment does not write the source object (an
\* element held by value keeps its value, a reference element keeps its
\* referent, and shows a new value only when it refers to a bound variable),
\* and every variable outside the binding set keeps its value.
C7_Frame ==
    Accepted =>
        /\ last.tupAfter = last.src
        /\ \A i \in 1..M :
            (~ElemIsRef(i) \/ last.src.elems[i].var \in Unbound) =>
                ElemValueIn(last.tupAfter, i, mem) = ValueHad(i)
        /\ \A v \in Unbound : mem[v] = last.pre[v]

\* An accepted assignment that changed a variable, from a source holding a
\* value and a reference to a variable outside the binding set.
C7_Witness ==
    /\ TemplateAccepted
    /\ last.args = <<"a", "a">>
    /\ ~ElemIsRef(1) /\ ElemIsRef(2)
    /\ last.src.elems[2].var = "b"
    /\ mem.a # last.pre.a

(***************************************************************************)
(* C8: the binding set never changes.                                      *)
(***************************************************************************)
\* C8: the assigner's binding set is always the list it was constructed with,
\* every assignment is made through that list, and the handle an assignment
\* returns is the assigner with that binding set.
C8_BindingSetFixed ==
    /\ refs = given
    /\ Call => last.args = given
    /\ Accepted => last.ret = given

\* A second accepted assignment through an assigner of two variables.
C8_Witness ==
    /\ TemplateAccepted /\ last.reuse
    /\ N = 2 /\ last.args[1] # last.args[2]
    /\ mem # last.pre

(***************************************************************************)
(* C9: construction and factory.                                           *)
(***************************************************************************)
\* C9: assign(v...) yields an assigner whose binding i is v_i, in order, the
\* same as direct construction from that list, and constructing by either
\* route succeeds and changes no variable.
C9_ConstructionAndFactory ==
    (last.op \in {"ctor", "assign"}) =>
        /\ last.outcome = "ok"
        /\ Len(refs) = Len(last.args)
        /\ \A i \in 1..Len(last.args) : refs[i] = last.args[i]
        /\ refs = assign_helper_ctor(last.args)
        /\ mem = last.pre

\* The factory called with two different variables.
C9_Witness ==
    /\ last.op = "assign"
    /\ Len(last.args) = 2
    /\ last.args[1] # last.args[2]

(***************************************************************************)
(* C10: the source is not snapshotted.                                     *)
(***************************************************************************)
\* C10: an element that is a reference to a variable written at an earlier
\* position is read after that write: its variable receives the new value.
\* Assigning (a, b) from references (b, a) leaves both equal to b's old value.
C10_NoSnapshot ==
    TemplateAccepted =>
        /\ \A i \in 1..N :
            (/\ ReadsWritten(i)
             /\ ~LaterBound(i)
             /\ \A j \in i..N : last.args[j] # last.src.elems[i].var) =>
                mem[last.args[i]] = mem[last.src.elems[i].var]
        /\ (last.args = <<"a", "b">> /\ last.src.elems = <<RefElem("b"), RefElem("a")>>) =>
               (mem.a = last.pre.b /\ mem.b = last.pre.b)

\* (a, b) assigned from references (b, a) when a and b differed.
C10_Witness ==
    /\ TemplateAccepted
    /\ last.args = <<"a", "b">>
    /\ last.src.elems = <<RefElem("b"), RefElem("a")>>
    /\ last.pre.a # last.pre.b

====
